---- MODULE Spec2Model ----
(***************************************************************************)
(* Model of the program-synthesis core of catcher-synthesis:               *)
(*   - src/src/BUS/BUS_DSL.py : the AST nodes of the DSL, their            *)
(*     constructors, add_child / replace_child and the bottom-up grow      *)
(*     rules over a cost-indexed program bank;                             *)
(*   - src/src/SA/sim_anneal.py : random program generation, completion,   *)
(*     mutation and the annealing driver.                                  *)
(*                                                                         *)
(* The specifications share the variables below:                           *)
(*   SpecNode     : constructors, add_child and replace_child of BUS_DSL.py*)
(*   SpecBank     : the grow rules applied level by level to a program bank*)
(*   SpecTree     : generate_random / complete_program / mutate of the     *)
(*                  simulated-annealing module                             *)
(*   SpecGen      : generate_random alone                                  *)
(*   SpecComplete : complete_program, one drawn child per step             *)
(*   SpecAnneal   : the annealing driver, synthesize                       *)
(***************************************************************************)
EXTENDS Integers, Sequences, FiniteSets, TLC

VARIABLES
    built,      \* SpecNode: the last constructor / add_child / replace_child call and its outcome
    plist,      \* SpecBank: the program bank, cost -> kind -> list of programs
    psize,      \* SpecBank: the cost level being grown
    grown,      \* SpecBank: the variants already grown at level psize
    emitted,    \* SpecBank: what the last grow call yielded, with the bank levels it read
    grammar,    \* SpecBank / SpecTree: the grammar configuration of the run
    pc,         \* SpecTree: position of the driver
    max_depth,  \* SpecTree: self.max_depth
    max_size,   \* SpecTree: self.max_size
    heap,       \* SpecTree: the program objects, reference -> tree
    current,    \* SpecTree: reference held by the driver's `current`
    candidate,  \* SpecTree: reference returned by mutate
    call,       \* SpecTree: record of the last generate_random / mutate call
    stack,      \* SpecComplete: the pending complete_program calls, innermost last
    option,     \* SpecAnneal: the option argument of synthesize
    run_optimizer, \* SpecAnneal: self.run_optimizer
    is_parallel,   \* SpecAnneal: self.is_parallel
    verbose_opt,   \* SpecAnneal: the verbose_opt argument
    best,          \* SpecAnneal: the best program so far (0: None)
    best_eval,     \* SpecAnneal: its score
    current_eval,  \* SpecAnneal: score of `current`
    candidate_eval,\* SpecAnneal: score of `candidate`
    initial_t,     \* SpecAnneal: self.initial_t
    final_t,       \* SpecAnneal: final_t
    current_t,     \* SpecAnneal: current_t
    epoch,         \* SpecAnneal: epoch
    iterations,    \* SpecAnneal: iterations (restarts completed)
    ppool,         \* SpecAnneal: the queue of (candidate, score) awaiting the optimizer
    scores_dict,   \* SpecAnneal: scores_dict
    best_pscore_dict \* SpecAnneal: best_pscore_dict

\* the variables of the annealing driver and of the stepwise completion
annealer ==
    <<stack, option, run_optimizer, is_parallel, verbose_opt, best, best_eval,
      current_eval, candidate_eval, initial_t, final_t, current_t, epoch, iterations,
      ppool, scores_dict, best_pscore_dict>>

vars == <<built, plist, psize, grown, emitted, grammar, pc, max_depth, max_size,
          heap, current, candidate, call, annealer>>

\* the driver before synthesize is called
AnnealerIdle ==
    /\ stack = <<>> /\ option = 0 /\ run_optimizer = FALSE /\ is_parallel = FALSE
    /\ verbose_opt = FALSE /\ best = 0 /\ best_eval = 0 /\ current_eval = 0
    /\ candidate_eval = 0 /\ initial_t = 0 /\ final_t = 0 /\ current_t = 0
    /\ epoch = 0 /\ iterations = 0 /\ ppool = <<>> /\ scores_dict = <<>>
    /\ best_pscore_dict = <<>>

(***************************************************************************)
(* Bounds of the model                                                     *)
(***************************************************************************)
MaxCost == 14

(***************************************************************************)
(* Small helpers                                                           *)
(***************************************************************************)
Range(s) == {s[i] : i \in DOMAIN s}

\* sum of a list of numbers, and concatenation of a list of lists (by halves)
RECURSIVE SumSeq(_)
SumSeq(s) ==
    IF s = <<>> THEN 0
    ELSE IF Len(s) = 1 THEN s[1]
    ELSE LET h == Len(s) \div 2
         IN SumSeq(SubSeq(s, 1, h)) + SumSeq(SubSeq(s, h + 1, Len(s)))

RECURSIVE Flatten(_)
Flatten(ss) ==
    IF ss = <<>> THEN <<>>
    ELSE IF Len(ss) = 1 THEN ss[1]
    ELSE LET h == Len(ss) \div 2
         IN Flatten(SubSeq(ss, 1, h)) \o Flatten(SubSeq(ss, h + 1, Len(ss)))

(***************************************************************************)
(* AST nodes (BUS_DSL.py).  A node is a record                             *)
(*   kind                 the class name                                   *)
(*   size                 self.size                                        *)
(*   max_number_children  self.max_number_children                         *)
(*   children             self.children (the list add_child appends to)    *)
(*   args                 the constructor's node arguments, in order       *)
(*                        (left/right, condition/if_body/else_body, ...)   *)
(*   value                the constructor's plain argument (value / name)  *)
(* None is the record NoneNode, so that every slot holds a record.         *)
(***************************************************************************)
NoneNode ==
    [kind |-> "NoneType", size |-> 0, max_number_children |-> 0,
     children |-> <<>>, args |-> <<>>, value |-> ""]

IsNone(n) == n.kind = "NoneType"

\* Node.__init__ : size 0, no children, arity 0
Node_init(kind) ==
    [kind |-> kind, size |-> 0, max_number_children |-> 0,
     children |-> <<>>, args |-> <<>>, value |-> ""]

\* Node.getSize
getSize(n) == n.size

\* Outcome of a call that may raise
Ok(n) == [status |-> "ok", node |-> n]
Raise(e) == [status |-> e, node |-> NoneNode]

\* The values `value in np.arange(0, 101, 0.01)` accepts, among the ones modelled
ConstantRange == {"0", "1", "5"}

\* Constant.__init__
Constant_init(value) ==
    IF value \notin ConstantRange THEN Raise("AssertionError")
    ELSE Ok([Node_init("Constant") EXCEPT !.size = 1, !.value = value,
                                          !.max_number_children = 0])

\* ReturnAction.__init__ : no assertion on the kind of `action`
ReturnAction_init(action) ==
    IF IsNone(action) THEN Raise("AttributeError")
    ELSE Ok([Node_init("ReturnAction") EXCEPT !.size = 1 + getSize(action),
                                              !.args = <<action>>,
                                              !.max_number_children = 1])

\* IT.__init__ with the size of if_body left out of the sum
IT_init_SizeWithoutBody(condition, if_body) ==
    IF if_body.kind # "ReturnAction" THEN Raise("AssertionError")
    ELSE IF IsNone(condition) THEN Raise("AttributeError")
    ELSE Ok([Node_init("IT") EXCEPT
                !.size = 1 + getSize(condition),
                !.args = <<condition, if_body>>,
                !.max_number_children = 2])

\* IT.__init__ : asserts the kind of if_body only
IT_init(condition, if_body) ==
    IF if_body.kind # "ReturnAction" THEN Raise("AssertionError")
    ELSE IF IsNone(condition) THEN Raise("AttributeError")
    ELSE Ok([Node_init("IT") EXCEPT
                !.size = 1 + getSize(condition) + getSize(if_body),
                !.args = <<condition, if_body>>,
                !.max_number_children = 2])

\* ITE.__init__ : asserts the kinds of if_body and else_body only
ITE_init(condition, if_body, else_body) ==
    IF if_body.kind # "ReturnAction" THEN Raise("AssertionError")
    ELSE IF else_body.kind # "ReturnAction" THEN Raise("AssertionError")
    ELSE IF IsNone(condition) THEN Raise("AttributeError")
    ELSE Ok([Node_init("ITE") EXCEPT
                !.size = 1 + getSize(condition) + getSize(if_body) + getSize(else_body),
                !.args = <<condition, if_body, else_body>>,
                !.max_number_children = 3])

\* PlayerPosition.__init__ / FallingFruitPosition.__init__
PlayerPosition_init ==
    Ok([Node_init("PlayerPosition") EXCEPT !.size = 1, !.max_number_children = 0])

FallingFruitPosition_init ==
    Ok([Node_init("FallingFruitPosition") EXCEPT !.size = 1, !.max_number_children = 0])

\* VarScalar.__init__
VarScalar_init(name) ==
    Ok([Node_init("VarScalar") EXCEPT !.size = 1, !.value = name,
                                      !.max_number_children = 0])

\* VarFromArray.__init__ : asserts that index is a Constant
VarFromArray_init(name, index) ==
    IF index.kind # "Constant" THEN Raise("AssertionError")
    ELSE Ok([Node_init("VarFromArray") EXCEPT !.size = 1 + getSize(index),
                                              !.value = name,
                                              !.args = <<index>>,
                                              !.max_number_children = 1])

\* The seven binary operators share one constructor body: no assertion at all
Binary_init(kind, left, right) ==
    IF IsNone(left) \/ IsNone(right) THEN Raise("AttributeError")
    ELSE Ok([Node_init(kind) EXCEPT !.size = 1 + getSize(left) + getSize(right),
                                    !.args = <<left, right>>,
                                    !.max_number_children = 2])

LessThan_init(left, right) == Binary_init("LessThan", left, right)
GreaterThan_init(left, right) == Binary_init("GreaterThan", left, right)
EqualTo_init(left, right) == Binary_init("EqualTo", left, right)
Plus_init(left, right) == Binary_init("Plus", left, right)
Times_init(left, right) == Binary_init("Times", left, right)
Minus_init(left, right) == Binary_init("Minus", left, right)
Divide_init(left, right) == Binary_init("Divide", left, right)

\* Strategy.__init__ : asserts both kinds; the size is the sum of the parts,
\* with no charge for the Strategy node itself
Strategy_init(statement, next_statements) ==
    IF statement.kind \notin {"IT", "ITE"} THEN Raise("AssertionError")
    ELSE IF next_statements.kind \notin {"Strategy", "ReturnAction", "NoneType"}
         THEN Raise("AssertionError")
    ELSE Ok([Node_init("Strategy") EXCEPT
                !.size = getSize(statement)
                         + (IF IsNone(next_statements) THEN 0 ELSE getSize(next_statements)),
                !.args = <<statement, next_statements>>,
                !.max_number_children = 2])

(***************************************************************************)
(* Node.add_child and Node.replace_child (BUS_DSL.py).  current_child_num  *)
(* always equals len(children) and is not kept apart.  Slots are numbered  *)
(* from 0 as in the code; TLA+ sequences from 1.                           *)
(***************************************************************************)
add_child(n, child) ==
    IF ~(Len(n.children) + 1 < n.max_number_children) THEN Raise("AssertionError")
    ELSE Ok([n EXCEPT !.children = Append(@, child),
                      !.size = IF IsNone(child) THEN @ ELSE @ + getSize(child)])

replace_child(n, child, i) ==
    IF i + 1 \notin DOMAIN n.children THEN Raise("IndexError")
    ELSE LET old == n.children[i + 1]
             s1 == IF IsNone(old) THEN n.size ELSE n.size - getSize(old)
             s2 == IF IsNone(child) THEN s1 ELSE s1 + getSize(child)
         IN Ok([n EXCEPT !.size = s2, !.children[i + 1] = child])

(***************************************************************************)
(* toString: the rendering, as the sequence of its tokens.  Two renderings *)
(* are byte-equal exactly when their token sequences are equal.            *)
(***************************************************************************)
BinarySymbol(kind) ==
    CASE kind = "LessThan" -> "<"
      [] kind = "GreaterThan" -> ">"
      [] kind = "EqualTo" -> "=="
      [] kind = "Plus" -> "+"
      [] kind = "Times" -> "*"
      [] kind = "Minus" -> "-"
      [] kind = "Divide" -> "//"

Comparisons == {"LessThan", "GreaterThan", "EqualTo"}
Arithmetics == {"Plus", "Times", "Minus", "Divide"}

RECURSIVE toString(_)
toString(n) ==
    CASE n.kind \in {"Constant", "VarScalar"} -> <<n.value>>
      [] n.kind = "PlayerPosition" -> <<"PlayerPosition">>
      [] n.kind = "FallingFruitPosition" -> <<"FallingFruitPosition">>
      [] n.kind = "VarFromArray" -> <<n.value, "[">> \o toString(n.args[1]) \o <<"]">>
      [] n.kind = "ReturnAction" -> <<"return">> \o toString(n.args[1])
      [] n.kind \in Comparisons ->
            toString(n.args[1]) \o <<BinarySymbol(n.kind)>> \o toString(n.args[2])
      [] n.kind \in Arithmetics ->
            <<"(">> \o toString(n.args[1]) \o <<BinarySymbol(n.kind)>>
                    \o toString(n.args[2]) \o <<")">>
      [] n.kind = "IT" ->
            <<"if">> \o toString(n.args[1]) \o <<":", "\n", "\t">> \o toString(n.args[2])
      [] n.kind = "ITE" ->
            <<"if">> \o toString(n.args[1]) \o <<":", "\n", "\t">> \o toString(n.args[2])
                     \o <<"\n", "else:", "\n", "\t">> \o toString(n.args[3])
      [] n.kind = "Strategy" ->
            toString(n.args[1]) \o <<"\n">>
                \o (IF IsNone(n.args[2]) THEN <<>> ELSE toString(n.args[2]))

(***************************************************************************)
(* The grammar allow-lists of each variant's slots, as the grow rules      *)
(* state them (valid_nodes, valid_dsbs, valid_return, ...).                *)
(***************************************************************************)
valid_nodes_comparison ==
    {"PlayerPosition", "FallingFruitPosition", "Plus", "Minus", "Divide", "Times",
     "Constant"}

valid_nodes_arithmetic ==
    {"VarScalar", "PlayerPosition", "FallingFruitPosition", "Constant", "Times",
     "Minus", "Plus", "Divide"}

valid_dsbs == {"LessThan", "GreaterThan", "EqualTo"}
valid_return == {"ReturnAction"}
valid_first_statement == {"IT", "ITE"}
valid_next_statements == {"Strategy", "ReturnAction", "NoneType"}

\* slot -> allowed kinds, for every composite variant
SlotKinds(kind) ==
    CASE kind \in Comparisons -> <<valid_nodes_comparison, valid_nodes_comparison>>
      [] kind \in Arithmetics -> <<valid_nodes_arithmetic, valid_nodes_arithmetic>>
      [] kind = "ReturnAction" -> <<{"VarFromArray"}>>
      [] kind = "VarFromArray" -> <<{"Constant"}>>
      [] kind = "IT" -> <<valid_dsbs, valid_return>>
      [] kind = "ITE" -> <<valid_dsbs, valid_return, valid_return>>
      [] kind = "Strategy" -> <<valid_first_statement, valid_next_statements>>
      [] OTHER -> <<>>

(***************************************************************************)
(* SpecNode: one constructor call with arguments drawn from a pool of      *)
(* nodes that the constructors built, followed by add_child and            *)
(* replace_child calls on the node it returned.                            *)
(***************************************************************************)
C0 == Constant_init("0").node
PP == PlayerPosition_init.node
VFA0 == VarFromArray_init("actions", C0).node
RA0 == ReturnAction_init(VFA0).node
LT0 == LessThan_init(PP, C0).node
PL0 == Plus_init(PP, PP).node
IT0 == IT_init(LT0, RA0).node
ITE0 == ITE_init(LT0, RA0, RA0).node
ST0 == Strategy_init(IT0, NoneNode).node

\* the arguments handed to the constructors
NodePool == {NoneNode, C0, PP, VFA0, RA0, LT0, PL0, IT0, ITE0, ST0}

\* the children handed to add_child / replace_child
ChildPool == {NoneNode, C0, RA0}

\* the plain arguments: Constant values (one outside the accepted range) and names
ValuePool == {"0", "1", "200"}
NamePool == {"actions", "paddle_width"}

Constructors ==
    {"Constant", "ReturnAction", "IT", "ITE", "PlayerPosition", "FallingFruitPosition",
     "VarScalar", "VarFromArray", "LessThan", "GreaterThan", "EqualTo", "Plus", "Times",
     "Minus", "Divide", "Strategy"}

Built(op, args, value, res) ==
    [op |-> op, args |-> args, value |-> value, status |-> res.status, node |-> res.node]

InitNode ==
    /\ built = [op |-> "none", args |-> <<>>, value |-> "", status |-> "none",
                node |-> NoneNode]
    /\ plist = <<>> /\ psize = 0 /\ grown = {} /\ emitted = <<>> /\ grammar = <<>>
    /\ pc = "idle" /\ max_depth = 0 /\ max_size = 0 /\ heap = <<>>
    /\ current = 0 /\ candidate = 0 /\ call = <<>>
    /\ AnnealerIdle

OtherThanBuilt ==
    UNCHANGED <<plist, psize, grown, emitted, grammar, pc, max_depth, max_size,
                heap, current, candidate, call, annealer>>

NewConstant ==
    /\ built.op = "none"
    /\ \E v \in ValuePool : built' = Built("Constant", <<>>, v, Constant_init(v))
    /\ OtherThanBuilt

NewReturnAction ==
    /\ built.op = "none"
    /\ \E a \in NodePool : built' = Built("ReturnAction", <<a>>, "", ReturnAction_init(a))
    /\ OtherThanBuilt

NewIT ==
    /\ built.op = "none"
    /\ \E c, b \in NodePool : built' = Built("IT", <<c, b>>, "", IT_init(c, b))
    /\ OtherThanBuilt

NewITE ==
    /\ built.op = "none"
    /\ \E c, b, e \in NodePool :
          built' = Built("ITE", <<c, b, e>>, "", ITE_init(c, b, e))
    /\ OtherThanBuilt

NewPlayerPosition ==
    /\ built.op = "none"
    /\ built' = Built("PlayerPosition", <<>>, "", PlayerPosition_init)
    /\ OtherThanBuilt

NewFallingFruitPosition ==
    /\ built.op = "none"
    /\ built' = Built("FallingFruitPosition", <<>>, "", FallingFruitPosition_init)
    /\ OtherThanBuilt

NewVarScalar ==
    /\ built.op = "none"
    /\ \E n \in NamePool : built' = Built("VarScalar", <<>>, n, VarScalar_init(n))
    /\ OtherThanBuilt

NewVarFromArray ==
    /\ built.op = "none"
    /\ \E n \in NamePool, i \in NodePool :
          built' = Built("VarFromArray", <<i>>, n, VarFromArray_init(n, i))
    /\ OtherThanBuilt

NewLessThan ==
    /\ built.op = "none"
    /\ \E l, r \in NodePool : built' = Built("LessThan", <<l, r>>, "", LessThan_init(l, r))
    /\ OtherThanBuilt

NewGreaterThan ==
    /\ built.op = "none"
    /\ \E l, r \in NodePool :
          built' = Built("GreaterThan", <<l, r>>, "", GreaterThan_init(l, r))
    /\ OtherThanBuilt

NewEqualTo ==
    /\ built.op = "none"
    /\ \E l, r \in NodePool : built' = Built("EqualTo", <<l, r>>, "", EqualTo_init(l, r))
    /\ OtherThanBuilt

NewPlus ==
    /\ built.op = "none"
    /\ \E l, r \in NodePool : built' = Built("Plus", <<l, r>>, "", Plus_init(l, r))
    /\ OtherThanBuilt

NewTimes ==
    /\ built.op = "none"
    /\ \E l, r \in NodePool : built' = Built("Times", <<l, r>>, "", Times_init(l, r))
    /\ OtherThanBuilt

NewMinus ==
    /\ built.op = "none"
    /\ \E l, r \in NodePool : built' = Built("Minus", <<l, r>>, "", Minus_init(l, r))
    /\ OtherThanBuilt

NewDivide ==
    /\ built.op = "none"
    /\ \E l, r \in NodePool : built' = Built("Divide", <<l, r>>, "", Divide_init(l, r))
    /\ OtherThanBuilt

NewStrategy ==
    /\ built.op = "none"
    /\ \E s, n \in NodePool : built' = Built("Strategy", <<s, n>>, "", Strategy_init(s, n))
    /\ OtherThanBuilt

\* a failed call leaves the node as it was
AddChild ==
    /\ built.status # "none"
    /\ ~IsNone(built.node)
    /\ \E c \in ChildPool :
          LET res == add_child(built.node, c)
          IN built' = Built("add_child", <<c>>, "",
                            IF res.status = "ok" THEN res
                            ELSE [status |-> res.status, node |-> built.node])
    /\ OtherThanBuilt

ReplaceChild ==
    /\ built.status # "none"
    /\ ~IsNone(built.node)
    /\ \E c \in ChildPool, i \in 0 .. 2 :
          LET res == replace_child(built.node, c, i)
          IN built' = Built("replace_child", <<c>>, "",
                            IF res.status = "ok" THEN res
                            ELSE [status |-> res.status, node |-> built.node])
    /\ OtherThanBuilt

NextNode ==
    \/ NewConstant \/ NewReturnAction \/ NewIT \/ NewITE
    \/ NewPlayerPosition \/ NewFallingFruitPosition \/ NewVarScalar \/ NewVarFromArray
    \/ NewLessThan \/ NewGreaterThan \/ NewEqualTo
    \/ NewPlus \/ NewTimes \/ NewMinus \/ NewDivide
    \/ NewStrategy
    \/ AddChild \/ ReplaceChild

SpecNode == InitNode /\ [][NextNode]_vars

(***************************************************************************)
(* Claims on the constructors, add_child and replace_child (SpecNode)      *)
(***************************************************************************)
\* sum of the sizes of the non-null nodes of a list
RECURSIVE SizeSum(_)
SizeSum(ns) ==
    IF ns = <<>> THEN 0
    ELSE (IF IsNone(Head(ns)) THEN 0 ELSE Head(ns).size) + SizeSum(Tail(ns))

\* the size invariant of the specification, at n and below
RECURSIVE SizeInvariant(_)
SizeInvariant(n) ==
    \/ IsNone(n)
    \/ /\ n.size = 1 + SizeSum(n.args)
       /\ \A i \in DOMAIN n.args : SizeInvariant(n.args[i])

ConstructorReturned == built.op \in Constructors /\ built.status = "ok"

\* C1 as stated: every constructor, Strategy included, returns a node whose
\* size is 1 + the sum of the sizes of its non-null children, when the children
\* satisfy the invariant.
C1_SizeIsOnePlusChildren ==
    (ConstructorReturned /\ \A i \in DOMAIN built.args : SizeInvariant(built.args[i]))
        => built.node.size = 1 + SizeSum(built.args)

\* C1 amended: every constructor other than Strategy's returns a node whose size
\* is 1 + the sum of the sizes of its non-null children; Strategy's returns a node
\* whose size is that sum alone, with or without a continuation.
C1_SizeOfConstructed ==
    ConstructorReturned =>
        /\ built.node.args = built.args
        /\ built.node.size =
              (IF built.op = "Strategy" THEN 0 ELSE 1) + SizeSum(built.args)

\* a Strategy was built with a continuation, from children satisfying the invariant
C1_Witness ==
    /\ ConstructorReturned
    /\ built.op = "Strategy"
    /\ ~IsNone(built.args[2])
    /\ \A i \in DOMAIN built.args : SizeInvariant(built.args[i])

\* C5 as stated: a constructor given a child whose kind is not in the allow-list
\* of its slot creates no node.
C5_IllTypedChildRejected ==
    (/\ built.op \in Constructors
     /\ \E i \in DOMAIN built.args : built.args[i].kind \notin SlotKinds(built.op)[i])
        => built.status # "ok"

\* C6 as stated: add_child succeeds exactly when the node holds fewer than
\* max_number_children children before the call.
AddChildLenBefore ==
    IF built.status = "ok" THEN Len(built.node.children) - 1
    ELSE Len(built.node.children)

C6_AddChildUpToArity ==
    built.op = "add_child" =>
        (built.status = "ok" <=> AddChildLenBefore < built.node.max_number_children)

(***************************************************************************)
(* The program bank (plist): cost -> kind -> list of programs.  A level is *)
(* kept as the list of its (kind, programs) items in insertion order, the  *)
(* order in which dict.items() yields them.  The bank class itself is not  *)
(* part of BUS_DSL.py; get and insert follow the data model of the         *)
(* specification.                                                          *)
(***************************************************************************)
NoLevel == [present |-> FALSE, items |-> <<>>]

\* plist.get(cost): the level, or None
BankGet(bank, cost) ==
    IF cost \in DOMAIN bank THEN [present |-> TRUE, items |-> bank[cost]] ELSE NoLevel

\* plist.get(cost, kind): the programs of that kind at that cost, or None
BankGetKind(bank, cost, kind) ==
    IF cost \notin DOMAIN bank THEN NoLevel
    ELSE LET hit == SelectSeq(bank[cost], LAMBDA it : it.t = kind)
         IN IF hit = <<>> THEN NoLevel ELSE [present |-> TRUE, items |-> hit[1].p]

\* insertion of a list of programs, each under its own kind at the level of
\* its size: a known kind's list is extended, a new kind is added to the level
\* when its first program arrives
BankInsertAll(bank, ns) ==
    LET costs == {getSize(ns[i]) : i \in DOMAIN ns}
        at(c) == SelectSeq(ns, LAMBDA n : getSize(n) = c)
        level(c) == IF c \in DOMAIN bank THEN bank[c] ELSE <<>>
        known(c) == {level(c)[i].t : i \in DOMAIN level(c)}
        first(c) ==
            LET new == at(c)
                idx == SelectSeq([i \in DOMAIN new |-> i],
                                 LAMBDA i : /\ new[i].kind \notin known(c)
                                            /\ \A j \in 1 .. i - 1 : new[j].kind # new[i].kind)
            IN [i \in DOMAIN idx |-> new[idx[i]].kind]
        of(c, kind) == SelectSeq(at(c), LAMBDA n : n.kind = kind)
        level2(c) ==
            [i \in DOMAIN level(c) |->
                [level(c)[i] EXCEPT !.p = @ \o of(c, level(c)[i].t)]]
            \o [i \in DOMAIN first(c) |-> [t |-> first(c)[i], p |-> of(c, first(c)[i])]]
    IN [k \in DOMAIN bank \cup costs |-> IF k \in costs THEN level2(k) ELSE bank[k]]

\* number of programs in the bank
BankCount(bank) ==
    SumSeq(Flatten([i \in 1 .. MaxCost + 1 |->
        IF i \in DOMAIN bank THEN [j \in DOMAIN bank[i] |-> Len(bank[i][j].p)] ELSE <<>>]))

(***************************************************************************)
(* The grow rules.  A grow call yields records [p, costs]: the program     *)
(* and the bank levels (costs) its parts were taken from.                  *)
(***************************************************************************)
\* itertools.product(range(n), repeat=2) and repeat=3, in the order of itertools
Product2(n) ==
    IF n <= 0 THEN <<>>
    ELSE [k \in 1 .. n * n |-> <<(k - 1) \div n, (k - 1) % n>>]

Product3(n) ==
    IF n <= 0 THEN <<>>
    ELSE [k \in 1 .. n * n * n |->
            <<(k - 1) \div (n * n), ((k - 1) \div n) % n, (k - 1) % n>>]

\* the programs of the allowed kinds of a level, in iteration order
ProgramsOf(level, valid) ==
    Flatten([i \in DOMAIN level.items |->
                IF level.items[i].t \in valid THEN level.items[i].p ELSE <<>>])

\* the loop nest shared by the binary grow rules: every (left, right) drawn from
\* the levels of a cost combination whose costs sum to psize - 1
OperandPairs(bank, target, valid1, valid2) ==
    LET combos == SelectSeq(Product2(target - 1),
                            LAMBDA cost : cost[1] + cost[2] + 1 = target)
        of(cost) ==
            LET set1 == BankGet(bank, cost[1])
                set2 == BankGet(bank, cost[2])
            IN IF set1.present /\ set2.present
               THEN LET ls == ProgramsOf(set1, valid1)
                        rs == ProgramsOf(set2, valid2)
                    IN Flatten([i \in DOMAIN ls |->
                           [j \in DOMAIN rs |->
                               [l |-> ls[i], r |-> rs[j], costs |-> cost]]])
               ELSE <<>>
    IN Flatten([k \in DOMAIN combos |-> of(combos[k])])

\* keep the pairs the rule accepts and build the node of each
BuildPairs(kind, pairs, keep(_, _)) ==
    LET kept == SelectSeq(pairs, LAMBDA q : keep(q.l, q.r))
    IN [i \in DOMAIN kept |->
           [p |-> Binary_init(kind, kept[i].l, kept[i].r).node, costs |-> kept[i].costs]]

\* ReturnAction.grow taking the actions from level psize instead of psize - 1
ReturnAction_grow_SameLevel(bank, target) ==
    LET programs == BankGetKind(bank, target, "VarFromArray")
    IN IF programs.present
       THEN [i \in DOMAIN programs.items |->
                [p |-> ReturnAction_init(programs.items[i]).node,
                 costs |-> <<target>>]]
       ELSE <<>>

\* ReturnAction.grow
ReturnAction_grow(bank, target) ==
    LET programs == BankGetKind(bank, target - 1, "VarFromArray")
    IN IF programs.present
       THEN [i \in DOMAIN programs.items |->
                [p |-> ReturnAction_init(programs.items[i]).node,
                 costs |-> <<target - 1>>]]
       ELSE <<>>

\* IT.grow
IT_grow(bank, target) ==
    LET pairs == OperandPairs(bank, target, valid_dsbs, valid_return)
    IN [i \in DOMAIN pairs |->
           [p |-> IT_init(pairs[i].l, pairs[i].r).node, costs |-> pairs[i].costs]]

\* ITE.grow
ITE_grow(bank, target) ==
    LET combos == SelectSeq(Product3(target - 1),
                            LAMBDA cost : cost[1] + cost[2] + cost[3] + 1 = target)
        of(cost) ==
            LET set1 == BankGet(bank, cost[1])
                set2 == BankGet(bank, cost[2])
                set3 == BankGet(bank, cost[3])
            IN IF set1.present /\ set2.present /\ set3.present
               THEN LET cs == ProgramsOf(set1, valid_dsbs)
                        bs == ProgramsOf(set2, valid_return)
                        es == ProgramsOf(set3, valid_return)
                    IN Flatten(Flatten([i \in DOMAIN cs |->
                           [j \in DOMAIN bs |->
                               [k \in DOMAIN es |->
                                   [p |-> ITE_init(cs[i], bs[j], es[k]).node,
                                    costs |-> cost]]]]))
               ELSE <<>>
    IN Flatten([k \in DOMAIN combos |-> of(combos[k])])

\* LessThan.grow, GreaterThan.grow, EqualTo.grow: operands of equal rendering are skipped
Comparison_grow(kind, bank, target) ==
    BuildPairs(kind,
               OperandPairs(bank, target, valid_nodes_comparison, valid_nodes_comparison),
               LAMBDA l, r : toString(l) # toString(r))

LessThan_grow(bank, target) == Comparison_grow("LessThan", bank, target)
GreaterThan_grow(bank, target) == Comparison_grow("GreaterThan", bank, target)
EqualTo_grow(bank, target) == Comparison_grow("EqualTo", bank, target)

ArithmeticPairs(bank, target) ==
    OperandPairs(bank, target, valid_nodes_arithmetic, valid_nodes_arithmetic)

\* Plus.grow testing the right operand only
Plus_grow_RightOnly(bank, target) ==
    BuildPairs("Plus", ArithmeticPairs(bank, target),
               LAMBDA l, r : toString(r) # <<"0">>)

\* Plus.grow: neither operand renders as '0'
Plus_grow(bank, target) ==
    BuildPairs("Plus", ArithmeticPairs(bank, target),
               LAMBDA l, r : toString(l) # <<"0">> /\ toString(r) # <<"0">>)

\* Minus.grow: the operands differ and the right one does not render as '0'
Minus_grow(bank, target) ==
    BuildPairs("Minus", ArithmeticPairs(bank, target),
               LAMBDA l, r : toString(l) # toString(r) /\ toString(r) # <<"0">>)

\* Divide.grow: neither operand renders as '0' and the operands differ
Divide_grow(bank, target) ==
    BuildPairs("Divide", ArithmeticPairs(bank, target),
               LAMBDA l, r : /\ toString(r) # <<"0">> /\ toString(l) # <<"0">>
                             /\ toString(l) # toString(r))

\* Times.grow: a pair is skipped when the rendering of its swap is already in nplist
RECURSIVE TimesLoop(_, _)
TimesLoop(pairs, nplist) ==
    IF pairs = <<>> THEN nplist
    ELSE LET q == Head(pairs)
             times == Times_init(q.l, q.r).node
             eq == Times_init(q.r, q.l).node
             is_equivalent ==
                 \E i \in DOMAIN nplist : toString(nplist[i].p) = toString(eq)
         IN TimesLoop(Tail(pairs),
                      IF is_equivalent THEN nplist
                      ELSE Append(nplist, [p |-> times, costs |-> q.costs]))

\* Times.grow without the test on the swapped pair
Times_grow_NoSwapTest(bank, target) ==
    BuildPairs("Times", ArithmeticPairs(bank, target), LAMBDA l, r : TRUE)

Times_grow(bank, target) == TimesLoop(ArithmeticPairs(bank, target), <<>>)

\* Strategy.grow: the costs of the statement and of the continuation sum to
\* psize itself; a missing level 0 stands for "no continuation"
StrategyCombos(target) ==
    SelectSeq(Product2(target + 1), LAMBDA cost : cost[1] + cost[2] = target)

Strategy_grow(bank, target) ==
    LET combos == StrategyCombos(target)
        of(cost) ==
            LET set1 == BankGet(bank, cost[1])
                got2 == BankGet(bank, cost[2])
                set2 == IF cost[2] = 0 /\ ~got2.present
                        THEN [present |-> TRUE,
                              items |-> <<[t |-> "NoneType", p |-> <<NoneNode>>]>>]
                        ELSE got2
            IN IF set1.present /\ set2.present
               THEN LET ss == ProgramsOf(set1, valid_first_statement)
                        ns == ProgramsOf(set2, valid_next_statements)
                    IN Flatten([i \in DOMAIN ss |->
                           [j \in DOMAIN ns |->
                               [p |-> Strategy_init(ss[i], ns[j]).node, costs |-> cost]]])
               ELSE <<>>
    IN Flatten([k \in DOMAIN combos |-> of(combos[k])])

(***************************************************************************)
(* SpecBank: bottom-up enumeration.  The run is given a grammar (the       *)
(* terminals and the list of operations to grow); the bank is seeded with  *)
(* the terminals, then every operation is grown in turn at cost level      *)
(* psize and all it yields is inserted, before the next level starts.      *)
(***************************************************************************)
MaxBank == 60

Grammars ==
    { [constants |-> <<"0", "1">>, scalars |-> <<>>, positions |-> <<>>,
       arrays |-> <<>>,
       operations |-> <<"Plus", "Minus", "Times", "Divide">>],
      [constants |-> <<"0", "1">>, scalars |-> <<"paddle_width">>, positions |-> <<>>,
       arrays |-> <<>>,
       operations |-> <<"Divide", "Times", "Minus", "Plus", "EqualTo">>],
      [constants |-> <<"0">>, scalars |-> <<>>,
       positions |-> <<"PlayerPosition", "FallingFruitPosition">>,
       arrays |-> <<"actions">>,
       operations |-> <<"LessThan", "ReturnAction", "IT", "ITE", "Strategy">>],
      [constants |-> <<"1">>, scalars |-> <<>>, positions |-> <<"PlayerPosition">>,
       arrays |-> <<"actions">>,
       operations |-> <<"Strategy", "IT", "ReturnAction", "GreaterThan">>],
      [constants |-> <<"0", "5">>, scalars |-> <<>>, positions |-> <<"PlayerPosition">>,
       arrays |-> <<"actions">>,
       operations |-> <<"ReturnAction", "Minus", "EqualTo", "GreaterThan", "IT",
                        "Strategy">>] }

\* the terminals of a grammar, in the order they are inserted
Terminals(g) ==
    LET consts == [i \in DOMAIN g.constants |-> Constant_init(g.constants[i]).node]
    IN consts
       \o [i \in DOMAIN g.scalars |-> VarScalar_init(g.scalars[i]).node]
       \o [i \in DOMAIN g.positions |->
              IF g.positions[i] = "PlayerPosition" THEN PlayerPosition_init.node
              ELSE FallingFruitPosition_init.node]
       \o Flatten([i \in DOMAIN g.arrays |->
              [j \in DOMAIN consts |-> VarFromArray_init(g.arrays[i], consts[j]).node]])

InitialBank(g) == BankInsertAll(<<>>, Terminals(g))

NoGrow == [op |-> "none", psize |-> 0, out |-> <<>>]

InitBank ==
    /\ grammar \in Grammars
    /\ plist = InitialBank(grammar)
    /\ psize = 1
    /\ grown = {}
    /\ emitted = NoGrow
    /\ built = <<>> /\ pc = "idle" /\ max_depth = 0 /\ max_size = 0 /\ heap = <<>>
    /\ current = 0 /\ candidate = 0 /\ call = <<>>
    /\ AnnealerIdle

OtherThanBank ==
    UNCHANGED <<built, grammar, pc, max_depth, max_size, heap, current, candidate, call,
                annealer>>

\* the operation whose turn it is at this level
NextOperation ==
    IF Cardinality(grown) < Len(grammar.operations)
    THEN grammar.operations[Cardinality(grown) + 1] ELSE "none"

\* one grow call at level psize, exhausted in full, and the insertion of its output
Grow(kind, out) ==
    /\ NextOperation = kind
    /\ BankCount(plist) <= MaxBank
    /\ emitted' = [op |-> kind, psize |-> psize, out |-> out]
    /\ plist' = BankInsertAll(plist, [i \in DOMAIN out |-> out[i].p])
    /\ grown' = grown \cup {kind}
    /\ psize' = psize
    /\ OtherThanBank

GrowReturnAction == Grow("ReturnAction", ReturnAction_grow(plist, psize))
GrowIT == Grow("IT", IT_grow(plist, psize))
GrowITE == Grow("ITE", ITE_grow(plist, psize))
GrowLessThan == Grow("LessThan", LessThan_grow(plist, psize))
GrowGreaterThan == Grow("GreaterThan", GreaterThan_grow(plist, psize))
GrowEqualTo == Grow("EqualTo", EqualTo_grow(plist, psize))
GrowPlus == Grow("Plus", Plus_grow(plist, psize))
GrowTimes == Grow("Times", Times_grow(plist, psize))
GrowMinus == Grow("Minus", Minus_grow(plist, psize))
GrowDivide == Grow("Divide", Divide_grow(plist, psize))
GrowStrategy == Grow("Strategy", Strategy_grow(plist, psize))

NextLevel ==
    /\ NextOperation = "none"
    /\ psize < MaxCost
    /\ BankCount(plist) <= MaxBank
    /\ psize' = psize + 1
    /\ grown' = {}
    /\ emitted' = NoGrow
    /\ UNCHANGED plist
    /\ OtherThanBank

NextBank ==
    \/ GrowReturnAction \/ GrowIT \/ GrowITE
    \/ GrowLessThan \/ GrowGreaterThan \/ GrowEqualTo
    \/ GrowPlus \/ GrowTimes \/ GrowMinus \/ GrowDivide
    \/ GrowStrategy
    \/ NextLevel

SpecBank == InitBank /\ [][NextBank]_vars

(***************************************************************************)
(* Claims on the grow rules (SpecBank)                                     *)
(***************************************************************************)
GrowReturned == emitted.op # "none"

Yielded == {emitted.out[i] : i \in DOMAIN emitted.out}

\* the parts of a yielded program are the bank entries of the levels recorded
PartsComeFromLevels(e) ==
    \A i \in DOMAIN e.costs :
        IF IsNone(e.p.args[i]) THEN e.costs[i] = 0 ELSE getSize(e.p.args[i]) = e.costs[i]

\* C3 as stated: whatever a grow call at cost k yields is built only from bank
\* entries of cost strictly smaller than k, for every variant, Strategy included.
C3_BuiltFromSmallerCosts ==
    GrowReturned =>
        \A e \in Yielded : \A i \in DOMAIN e.costs : e.costs[i] < emitted.psize

\* C3 amended: the grow of every variant other than Strategy builds only from bank
\* entries of cost strictly smaller than k.  Strategy.grow combines a statement and
\* a continuation whose costs sum to k: with a continuation both parts cost less
\* than k, without one the statement is an entry of the bank's cost-k level.
C3_GrowCostLevels ==
    GrowReturned =>
        \A e \in Yielded :
            /\ PartsComeFromLevels(e)
            /\ IF emitted.op # "Strategy"
               THEN \A i \in DOMAIN e.costs : e.costs[i] < emitted.psize
               ELSE /\ e.costs[1] + e.costs[2] = emitted.psize
                    /\ IF IsNone(e.p.args[2])
                       THEN e.costs[1] = emitted.psize
                       ELSE e.costs[1] < emitted.psize /\ e.costs[2] < emitted.psize

\* Strategy.grow at cost k yielded a Strategy without continuation, built from a
\* statement of cost k
C3_Witness ==
    /\ emitted.op = "Strategy"
    /\ \E e \in Yielded : IsNone(e.p.args[2]) /\ getSize(e.p.args[1]) = emitted.psize

RendersZero(n) == toString(n) = <<"0">>

\* C4 as stated: nothing yielded by Plus.grow, Minus.grow or Divide.grow has a left
\* or a right operand that renders as "0".
C4_NoZeroOperand ==
    emitted.op \in {"Plus", "Minus", "Divide"} =>
        \A e \in Yielded : ~RendersZero(e.p.args[1]) /\ ~RendersZero(e.p.args[2])

\* C4 amended: nothing yielded by Plus.grow or Divide.grow has an operand that
\* renders as "0", and nothing yielded by Minus.grow has a right operand that
\* renders as "0"; Minus.grow keeps a left operand "0": with the Constants 0 and 1
\* at cost 1, grow at cost 3 yields (0 - 1).
C4_ZeroOperandPruning ==
    /\ emitted.op \in {"Plus", "Divide"} =>
          \A e \in Yielded : ~RendersZero(e.p.args[1]) /\ ~RendersZero(e.p.args[2])
    /\ emitted.op = "Minus" =>
          /\ \A e \in Yielded : ~RendersZero(e.p.args[2])
          /\ (emitted.psize = 3 /\ {"0", "1"} \subseteq Range(grammar.constants)) =>
                \E e \in Yielded : toString(e.p) = <<"(", "0", "-", "1", ")">>

\* Minus.grow, with the Constant 0 in the bank, yielded a program whose left
\* operand renders as "0" and pruned the pairs whose right operand does
C4_Witness ==
    /\ emitted.op = "Minus"
    /\ "0" \in Range(grammar.constants)
    /\ \E e \in Yielded : RendersZero(e.p.args[1])

(***************************************************************************)
(* The DSL the simulated-annealing module works on (`from src.dsl import   *)
(* *`).  That module is not among the sources; what sim_anneal.py needs of *)
(* it is modelled after the specification:                                 *)
(*   - a node keeps its children in `children`; size is 1 + the sizes of   *)
(*     its non-null children, a plain value (name, index, number) being a  *)
(*     leaf of size 1;                                                     *)
(*   - Node.instance(kind) is a fresh node without children;               *)
(*   - add_child appends while enforcing the arity ceiling;                *)
(*   - check_correct_size recomputes the sizes bottom-up.                  *)
(* The value sets of VarFromArray, VarScalar and Constant are those        *)
(* init_var_child_types installs from the grammar.                         *)
(***************************************************************************)
\* a plain value drawn from a grammar set
Value(v) ==
    [kind |-> "value", size |-> 1, max_number_children |-> 0,
     children |-> <<>>, args |-> <<>>, value |-> v]

\* isinstance(x, Node)
IsNode(x) == x.kind \notin {"NoneType", "value"}

\* the number of child slots of each class
dsl_max_number_children(kind) ==
    CASE kind \in {"PlayerPosition", "FallingFruitPosition"} -> 0
      [] kind \in {"VarScalar", "Constant", "ReturnAction"} -> 1
      [] kind = "ITE" -> 3
      [] OTHER -> 2

\* init_var_child_types: the value sets of the three variable classes
init_var_child_types(g, kind) ==
    CASE kind = "VarFromArray" -> <<g.arrays, g.array_indexes>>
      [] kind = "VarScalar" -> <<g.scalars>>
      [] kind = "Constant" -> <<g.constants>>

\* cls.get_valid_children_types(): per slot, the class names (or values) allowed;
\* for Node itself, the initial productions
get_valid_children_types(g, kind) ==
    CASE kind = "Node" -> <<{"Strategy", "IT", "ITE", "ReturnAction"}>>
      [] kind \in {"VarFromArray", "VarScalar", "Constant"} -> init_var_child_types(g, kind)
      [] kind \in {"PlayerPosition", "FallingFruitPosition"} -> <<>>
      [] OTHER -> SlotKinds(kind)

\* Node.instance(child_type): a class name gives a fresh node, None gives None,
\* a plain value gives the value
instance(g, child_type) ==
    IF child_type = "NoneType" THEN NoneNode
    ELSE IF child_type \in g.arrays \cup g.array_indexes \cup g.scalars \cup g.constants
         THEN Value(child_type)
    ELSE [kind |-> child_type, size |-> 1,
          max_number_children |-> dsl_max_number_children(child_type),
          children |-> <<>>, args |-> <<>>, value |-> ""]

\* what a child contributes to the size of its parent
ChildSize(c) == IF IsNone(c) THEN 0 ELSE c.size

\* add_child of the DSL: the arity ceiling is enforced, the child's current size added
dsl_add_child(n, child) ==
    IF ~(Len(n.children) + 1 <= n.max_number_children) THEN Raise("AssertionError")
    ELSE Ok([n EXCEPT !.children = Append(@, child), !.size = @ + ChildSize(child)])

\* check_correct_size: sizes recomputed bottom-up
RECURSIVE check_correct_size(_)
check_correct_size(n) ==
    IF ~IsNode(n) THEN n
    ELSE LET cs == [i \in DOMAIN n.children |-> check_correct_size(n.children[i])]
         IN [n EXCEPT !.children = cs,
                      !.size = 1 + SumSeq([i \in DOMAIN cs |-> ChildSize(cs[i])])]

(***************************************************************************)
(* sim_anneal.py: get_terminal_node, complete_program, generate_random.    *)
(* random.choice is a nondeterministic choice: each operator gives the set *)
(* of its possible outcomes.  A completion outcome is [node, draws]: the   *)
(* completed node and the log of the children drawn for its open slots.    *)
(***************************************************************************)
InitialDepth == 0

\* get_terminal_node without the preference for terminals
get_terminal_node_AnyAllowed(g, valid_ith_child_types) ==
    {instance(g, t) : t \in valid_ith_child_types}

\* get_terminal_node: the children it may return.  `terminal_nodes == 0`
\* compares a list with an integer, so the second loop never runs.
get_terminal_node(g, valid_ith_child_types) ==
    LET terminal_nodes ==
            {instance(g, t) : t \in
                {ct \in valid_ith_child_types :
                    \/ ct = "NoneType"
                    \/ ct \in {"VarFromArray", "VarScalar", "Constant"}
                    \/ instance(g, ct).max_number_children = 0}}
        list_equals_zero == FALSE
        second_loop ==
            IF list_equals_zero
            THEN {instance(g, t) : t \in
                     {ct \in valid_ith_child_types :
                         instance(g, ct).max_number_children = 1}}
            ELSE {}
        nodes == terminal_nodes \cup second_loop
    IN IF Cardinality(nodes) > 0 THEN nodes
       ELSE {instance(g, t) : t \in valid_ith_child_types}

\* the test with a strict depth comparison
TerminalMode_DepthStrict(p, depth, md, ms) == depth > md \/ p.size >= ms

\* the test without the size ceiling
TerminalMode_DepthOnly(p, depth, md, ms) == depth >= md

\* the test of complete_program that sends a slot to get_terminal_node
TerminalMode(p, depth, md, ms) == depth >= md \/ p.size >= ms

\* p.add_child(child) followed by complete_program(child, ...): the child is
\* added while it is still incomplete, and then completed in place
AddThenComplete(p, child, completed) ==
    LET q == dsl_add_child(p, child).node
    IN [q EXCEPT !.children[Len(q.children)] = completed]

Draw(p, slot, depth, md, ms, valid, child, terminal) ==
    [parent |-> p.kind, slot |-> slot, depth |-> depth, psize |-> p.size,
     max_depth |-> md, max_size |-> ms, valid |-> valid,
     kind |-> child.kind, required |-> child.max_number_children,
     terminal |-> terminal]

RECURSIVE complete_program(_, _, _, _, _)
RECURSIVE CompleteSlots(_, _, _, _, _, _)

\* the loop of complete_program from slot i on
CompleteSlots(g, p, i, depth, md, ms) ==
    IF i >= p.max_number_children THEN {[node |-> p, draws |-> {}]}
    ELSE
    LET valid == get_valid_children_types(g, p.kind)[i + 1]
        \* the rest of the loop, once the slot holds `completed`
        rest(child, done, draw) ==
            {[node |-> r.node, draws |-> r.draws \cup done.draws \cup draw] :
                r \in CompleteSlots(g, AddThenComplete(p, child, done.node),
                                    i + 1, depth, md, ms)}
        fill(child, draw) ==
            UNION {rest(child, done, draw) :
                      done \in complete_program(g, child, depth + 1, md, ms)}
    IN IF p.kind \in {"VarScalar", "VarFromArray", "Constant"}
       THEN UNION {CompleteSlots(g, dsl_add_child(p, Value(v)).node,
                                 i + 1, depth, md, ms) : v \in valid}
       ELSE IF TerminalMode(p, depth, md, ms)
       THEN UNION {fill(child, {Draw(p, i, depth, md, ms, valid, child, TRUE)}) :
                      child \in get_terminal_node(g, valid)}
       ELSE UNION {fill(child, {Draw(p, i, depth, md, ms, valid, child, FALSE)}) :
                      child \in {instance(g, t) : t \in valid}}

complete_program(g, p, depth, md, ms) ==
    IF IsNone(p) THEN {[node |-> p, draws |-> {}]}
    ELSE CompleteSlots(g, p, 0, depth, md, ms)

\* generate_random: a random initial production, completed, sizes checked
generate_random(g, md, ms) ==
    LET initial_nodes == get_valid_children_types(g, "Node")[1]
    IN UNION {{[node |-> check_correct_size(done.node), draws |-> done.draws] :
                  done \in complete_program(g, instance(g, t), InitialDepth, md, ms)} :
              t \in initial_nodes}

(***************************************************************************)
(* sim_anneal.py: mutate_inner_nodes and mutate.  The tree is changed in   *)
(* place; an outcome gives the tree as the call leaves it.                 *)
(***************************************************************************)
RECURSIVE mutate_inner_nodes(_, _, _, _, _, _, _)
RECURSIVE MutateSlots(_, _, _, _, _, _, _, _)

\* the loop of mutate_inner_nodes from slot i on; `level` is the depth of p in
\* the program, kept for the record of the call only
MutateSlots(g, p, i, index, processed_nodes, md, ms, level) ==
    IF i >= p.max_number_children
    THEN {[node |-> p, found |-> FALSE, processed_nodes |-> processed_nodes,
           draws |-> {}, level |-> 0, old |-> NoneNode, new |-> NoneNode]}
    ELSE IF index = processed_nodes
    THEN LET valid == get_valid_children_types(g, p.kind)[i + 1]
             completions(child) ==
                 IF IsNode(child)
                 THEN complete_program(g, child, InitialDepth, md, ms - p.size)
                 ELSE {[node |-> child, draws |-> {}]}
         IN UNION {{[node |-> replace_child(p, done.node, i).node, found |-> TRUE,
                     processed_nodes |-> processed_nodes, draws |-> done.draws,
                     level |-> level, old |-> p.children[i + 1], new |-> done.node] :
                       done \in completions(instance(g, t))} : t \in valid}
    ELSE UNION {IF r.found
                THEN {[r EXCEPT !.node = [p EXCEPT !.children[i + 1] = r.node]]}
                ELSE MutateSlots(g, p, i + 1, index, r.processed_nodes, md, ms, level) :
                r \in mutate_inner_nodes(g, p.children[i + 1], index, processed_nodes,
                                         md, ms, level + 1)}

mutate_inner_nodes(g, p, index, processed_nodes, md, ms, level) ==
    IF ~IsNode(p)
    THEN {[node |-> p, found |-> FALSE, processed_nodes |-> processed_nodes + 1,
           draws |-> {}, level |-> 0, old |-> NoneNode, new |-> NoneNode]}
    ELSE MutateSlots(g, p, 0, index, processed_nodes + 1, md, ms, level)

\* mutate without the final check_correct_size
mutate_NoSizeCheck(g, p, md, ms) ==
    UNION {IF index = 0
           THEN {[index |-> index, in_place |-> FALSE, found |-> FALSE, given |-> p,
                  result |-> r.node, draws |-> r.draws, level |-> 0,
                  old |-> NoneNode, new |-> NoneNode] :
                     r \in generate_random(g, md, ms)}
           ELSE {[index |-> index, in_place |-> TRUE, found |-> r.found,
                  given |-> r.node, result |-> r.node,
                  draws |-> r.draws, level |-> r.level, old |-> r.old, new |-> r.new] :
                     r \in mutate_inner_nodes(g, p, index, 0, md, ms, 0)} :
           index \in 0 .. p.size}

\* mutate(p): the outcomes of one call.  index is drawn in [0, p.get_size()];
\* index 0 builds a new program and leaves p alone; any other index works on p
\* itself and returns it.  `given` is p as the call leaves it, `result` the
\* tree returned, in_place tells that the two are the same object.
mutate(g, p, md, ms) ==
    UNION {IF index = 0
           THEN {[index |-> index, in_place |-> FALSE, found |-> FALSE, given |-> p,
                  result |-> r.node, draws |-> r.draws, level |-> 0,
                  old |-> NoneNode, new |-> NoneNode] :
                     r \in generate_random(g, md, ms)}
           ELSE {[index |-> index, in_place |-> TRUE, found |-> r.found,
                  given |-> check_correct_size(r.node), result |-> check_correct_size(r.node),
                  draws |-> r.draws, level |-> r.level, old |-> r.old, new |-> r.new] :
                     r \in mutate_inner_nodes(g, p, index, 0, md, ms, 0)} :
           index \in 0 .. p.size}

(***************************************************************************)
(* SpecTree: a run of the generator and the mutator.  The driver obtains   *)
(* `current` from generate_random and `candidate` from                     *)
(* mutate(cp.deepcopy(current)).  Programs are objects: heap maps each     *)
(* reference to the tree it holds, so that a change made in place shows    *)
(* through every reference to the object.                                  *)
(***************************************************************************)
\* the ceilings tried when only the generator runs
MaxDepth == 0
MaxSize == 3
\* the ceilings tried when the mutator runs on the generated program
MaxMutateDepth == 1
MaxMutateSize == 2

TreeGrammar ==
    [arrays |-> {"actions"}, array_indexes |-> {"0"},
     scalars |-> {"paddle_width"}, constants |-> {"5"}]

NoCall ==
    [op |-> "none", index |-> 0, found |-> FALSE, given |-> 0, before |-> NoneNode,
     draws |-> {}, level |-> 0, old |-> NoneNode, new |-> NoneNode]

\* the state before the first program is generated, under the given ceilings
Fresh(depths, sizes) ==
    /\ max_depth \in depths
    /\ max_size \in sizes
    /\ grammar = TreeGrammar
    /\ pc = "start"
    /\ heap = <<>>
    /\ current = 0
    /\ candidate = 0
    /\ call = NoCall
    /\ built = <<>> /\ plist = <<>> /\ psize = 0 /\ grown = {} /\ emitted = <<>>
    /\ AnnealerIdle

OtherThanTree ==
    UNCHANGED <<built, plist, psize, grown, emitted, grammar, max_depth, max_size, annealer>>

\* current = self.generate_random()
GenerateRandom ==
    /\ pc = "start"
    /\ \E r \in generate_random(grammar, max_depth, max_size) :
          /\ heap' = <<r.node>>
          /\ current' = 1
          /\ call' = [NoCall EXCEPT !.op = "generate_random", !.draws = r.draws]
    /\ candidate' = 0
    /\ pc' = "generated"
    /\ OtherThanTree

\* current itself handed to mutate, without a copy
deepcopy_current_Alias(h, cur) == [heap |-> h, ref |-> cur]

\* cp.deepcopy(current): the reference handed to mutate and the heap holding it
deepcopy_current(h, cur) == [heap |-> Append(h, h[cur]), ref |-> Len(h) + 1]

\* candidate = self.mutate(cp.deepcopy(current))
Mutate ==
    /\ pc = "generated"
    /\ LET arg == deepcopy_current(heap, current)
       IN \E m \in mutate(grammar, arg.heap[arg.ref], max_depth, max_size) :
             /\ heap' = IF m.in_place
                        THEN [arg.heap EXCEPT ![arg.ref] = m.given]
                        ELSE Append(arg.heap, m.result)
             /\ candidate' = IF m.in_place THEN arg.ref ELSE Len(arg.heap) + 1
             /\ call' = [op |-> "mutate", index |-> m.index, found |-> m.found,
                         given |-> arg.ref, before |-> arg.heap[arg.ref],
                         draws |-> m.draws, level |-> m.level,
                         old |-> m.old, new |-> m.new]
    /\ UNCHANGED current
    /\ pc' = "mutated"
    /\ OtherThanTree

InitTree == Fresh(0 .. MaxMutateDepth, 1 .. MaxMutateSize)

NextTree == GenerateRandom \/ Mutate

SpecTree == InitTree /\ [][NextTree]_vars

\* SpecGen: the generator alone, under larger ceilings
InitGen == Fresh(0 .. MaxDepth, 1 .. MaxSize)

NextGen == GenerateRandom

SpecGen == InitGen /\ [][NextGen]_vars

(***************************************************************************)
(* Measures of a program of the annealer.                                  *)
(***************************************************************************)
MaxOf(S) == CHOOSE m \in S : \A x \in S : x <= m

\* the elements in the slots of n, empty slots left out
Present(n) == {i \in DOMAIN n.children : ~IsNone(n.children[i])}

\* the number of edges of the longest path from n down to a leaf, a plain value
\* under a variable or a constant being a leaf
RECURSIVE Depth(_)
Depth(n) ==
    IF Present(n) = {} THEN 0
    ELSE 1 + MaxOf({Depth(n.children[i]) : i \in Present(n)})

\* the same, over nodes only
RECURSIVE NodeDepth(_)
NodeDepth(n) ==
    LET nodes == {i \in Present(n) : IsNode(n.children[i])}
    IN IF nodes = {} THEN 0
       ELSE 1 + MaxOf({NodeDepth(n.children[i]) : i \in nodes})

\* size == 1 + the sizes of the non-null children, at n and at every node below
RECURSIVE SizeHolds(_)
SizeHolds(n) ==
    IsNode(n) =>
        /\ n.size = 1 + SumSeq([i \in DOMAIN n.children |-> ChildSize(n.children[i])])
        /\ \A i \in DOMAIN n.children : SizeHolds(n.children[i])

Mutated == pc = "mutated" /\ call.op = "mutate"

C7_EveryIndexReplaces ==
    Mutated => (call.index = 0 \/ call.found)

(***************************************************************************)
(* C8 as stated.  mutate leaves the tree it is given unchanged and returns *)
(* a separate tree.                                                        *)
(***************************************************************************)
C8_MutateLeavesInputUnchanged ==
    Mutated => (heap[call.given] = call.before /\ candidate # call.given)

(***************************************************************************)
(* C8 as amended.  mutate works on the object it is given: for a non-zero  *)
(* index it changes that object in place and returns it, for index 0 it    *)
(* returns a new program and leaves the given one alone.  The driver hands *)
(* it a deep copy of `current`, so `current` is as it was before the call  *)
(* and the candidate is another object.                                    *)
(***************************************************************************)
C8_CurrentUnchangedByMutate ==
    Mutated =>
        /\ heap[current] = call.before
        /\ candidate # current
        /\ call.given # current
        /\ call.index # 0 => candidate = call.given
        /\ call.index = 0 => (candidate # call.given /\ heap[call.given] = call.before)

\* the copy was changed in place while current kept the tree
C8_Witness ==
    /\ Mutated /\ call.index # 0 /\ call.found
    /\ candidate = call.given
    /\ heap[candidate] # call.before
    /\ heap[current] = call.before

TerminalSituation(d) == d.depth >= d.max_depth \/ d.psize >= d.max_size

C10_TerminalCompatibleOnly ==
    \A d \in call.draws : TerminalSituation(d) => d.required <= 1

(***************************************************************************)
(* C10 as amended.  A slot is completed in terminal mode exactly when the  *)
(* depth of the node being completed is >= max_depth or the size field of  *)
(* that node (not of the whole tree) is >= max_size.  In terminal mode the *)
(* child drawn is the empty slot, a VarFromArray, VarScalar or Constant,   *)
(* or a variant without children, whenever the slot allows one of these;   *)
(* when it allows none, any allowed variant is drawn, variants with two or *)
(* more required children included.                                        *)
(***************************************************************************)
TerminalKinds(valid) ==
    {ct \in valid : \/ ct \in {"NoneType", "VarFromArray", "VarScalar", "Constant"}
                    \/ dsl_max_number_children(ct) = 0}

C10_TerminalModeDraws ==
    \A d \in call.draws :
        /\ d.terminal = TerminalSituation(d)
        /\ d.kind \in d.valid
        /\ (d.terminal /\ TerminalKinds(d.valid) # {}) => d.kind \in TerminalKinds(d.valid)

\* one slot sent to terminal mode by the size alone, and one slot in terminal
\* mode that received a variant with two required children
C10_Witness ==
    /\ call.op = "generate_random"
    /\ \E d \in call.draws :
          /\ d.depth < d.max_depth /\ d.psize >= d.max_size
          /\ d.terminal /\ d.kind \in TerminalKinds(d.valid)
    /\ \E d \in call.draws :
          /\ d.terminal /\ TerminalKinds(d.valid) = {} /\ d.required >= 2

(***************************************************************************)
(* SpecComplete: complete_program as a process.  stack holds the pending   *)
(* calls, the innermost last; a frame keeps of the node being completed    *)
(* what the loop reads: its kind, the slot reached and its size field.     *)
(* Each step is one turn of the loop of the innermost call (a child drawn  *)
(* and added, and complete_program entered for it), or the return of that  *)
(* call.  The first call is the one of generate_random or the one of       *)
(* mutate_inner_nodes, which completes a fresh node of any kind under      *)
(* max_size - p.get_size().                                                *)
(***************************************************************************)
MaxCompleteDepth == 2
MaxCompleteSize == 3

\* the recursion depth the model follows; beyond it no further call is entered
MaxStack == MaxCompleteDepth + 6

\* the frame of complete_program(child, depth, ...)
Frame(child, depth) ==
    [kind |-> child.kind, slot |-> 0, size |-> child.size,
     max_number_children |-> child.max_number_children, depth |-> depth]

InitComplete ==
    /\ max_depth \in 0 .. MaxCompleteDepth
    /\ max_size \in 0 .. MaxCompleteSize
    /\ grammar = TreeGrammar
    /\ \E kind \in Constructors : stack = <<Frame(instance(grammar, kind), InitialDepth)>>
    /\ pc = "complete_program"
    /\ call = [op |-> "complete_program", fallback |-> FALSE, by_size |-> FALSE]
    /\ heap = <<>> /\ current = 0 /\ candidate = 0
    /\ built = <<>> /\ plist = <<>> /\ psize = 0 /\ grown = {} /\ emitted = <<>>
    /\ option = 0 /\ run_optimizer = FALSE /\ is_parallel = FALSE
    /\ verbose_opt = FALSE /\ best = 0 /\ best_eval = 0 /\ current_eval = 0
    /\ candidate_eval = 0 /\ initial_t = 0 /\ final_t = 0 /\ current_t = 0
    /\ epoch = 0 /\ iterations = 0 /\ ppool = <<>> /\ scores_dict = <<>>
    /\ best_pscore_dict = <<>>

OtherThanStack ==
    UNCHANGED <<built, plist, psize, grown, emitted, grammar, pc, max_depth, max_size,
                heap, current, candidate, option, run_optimizer, is_parallel,
                verbose_opt, best, best_eval, current_eval, candidate_eval, initial_t,
                final_t, current_t, epoch, iterations, ppool, scores_dict,
                best_pscore_dict>>

\* the innermost call
Top == stack[Len(stack)]

\* p.add_child(child) on the innermost frame, the loop moving to the next slot
Added(child) ==
    [stack EXCEPT ![Len(stack)] =
        [@ EXCEPT !.slot = @ + 1, !.size = @ + ChildSize(child)]]

\* `if p is None: return`, or the loop of the innermost call is over
Return ==
    /\ stack # <<>>
    /\ Top.kind = "NoneType" \/ Top.slot >= Top.max_number_children
    /\ stack' = SubSeq(stack, 1, Len(stack) - 1)
    /\ UNCHANGED call
    /\ OtherThanStack

\* a slot of a VarScalar, VarFromArray or Constant: a value is drawn and added
DrawValue ==
    /\ stack # <<>>
    /\ Top.kind # "NoneType" /\ Top.slot < Top.max_number_children
    /\ Top.kind \in {"VarScalar", "VarFromArray", "Constant"}
    /\ \E v \in get_valid_children_types(grammar, Top.kind)[Top.slot + 1] :
          stack' = Added(Value(v))
    /\ UNCHANGED call
    /\ OtherThanStack

\* depth >= max_depth or p.get_size() >= max_size: get_terminal_node, add_child,
\* and complete_program entered for the child
DrawTerminal ==
    /\ stack # <<>>
    /\ Top.kind # "NoneType" /\ Top.slot < Top.max_number_children
    /\ Top.kind \notin {"VarScalar", "VarFromArray", "Constant"}
    /\ TerminalMode(Top, Top.depth, max_depth, max_size)
    /\ Len(stack) < MaxStack
    /\ LET valid == get_valid_children_types(grammar, Top.kind)[Top.slot + 1]
       IN /\ \E child \in get_terminal_node(grammar, valid) :
                stack' = Append(Added(child), Frame(child, Top.depth + 1))
          /\ call' = [call EXCEPT
                        !.fallback = @ \/ TerminalKinds(valid) = {},
                        !.by_size = @ \/ Top.depth < max_depth]
    /\ OtherThanStack

\* otherwise: any allowed variant, add_child, and complete_program entered for it
DrawAny ==
    /\ stack # <<>>
    /\ Top.kind # "NoneType" /\ Top.slot < Top.max_number_children
    /\ Top.kind \notin {"VarScalar", "VarFromArray", "Constant"}
    /\ ~TerminalMode(Top, Top.depth, max_depth, max_size)
    /\ Len(stack) < MaxStack
    /\ \E t \in get_valid_children_types(grammar, Top.kind)[Top.slot + 1] :
          LET child == instance(grammar, t)
          IN stack' = Append(Added(child), Frame(child, Top.depth + 1))
    /\ UNCHANGED call
    /\ OtherThanStack

NextComplete == Return \/ DrawValue \/ DrawTerminal \/ DrawAny

SpecComplete == InitComplete /\ [][NextComplete]_vars /\ WF_vars(NextComplete)

(***************************************************************************)
(* C11.  complete_program terminates for every sequence of random choices  *)
(* and every max_depth and max_size: the chain of pending calls never      *)
(* grows beyond max_depth + 4, also through the fallback taken when a slot *)
(* has no terminal variant, and every call returns in the end.             *)
(***************************************************************************)
C11_CompletionTerminates ==
    /\ [](Len(stack) <= max_depth + 4)
    /\ <>(stack = <<>>)

\* the first call returned after the fallback was taken, and after a slot was
\* sent to get_terminal_node by the size alone
C11_Witness ==
    /\ pc = "complete_program" /\ stack = <<>>
    /\ call.fallback /\ call.by_size

(***************************************************************************)
(* sim_anneal.py: the annealing driver, synthesize.                        *)
(*                                                                         *)
(* The driver reads of a program only its score and whether it is None, so *)
(* here the programs are the references 1 .. Len(heap) to objects of which *)
(* only the score the evaluator gives them is kept; reference 0 is None.   *)
(* generate_random and mutate return any program.  The evaluator and the   *)
(* optimizer are collaborators outside the repository's core: evaluate     *)
(* gives a program its score, optimize returns any program with its score. *)
(* Temperatures are fixed-point numbers, in units of 1 / TempScale.  Of    *)
(* the two plot records, scores_dict and best_pscore_dict, the scores      *)
(* written are kept, without the restart and epoch they are filed under.   *)
(***************************************************************************)
Sentinel == -1000000
AlphaTenths == 9
beta == 100
TempScale == 100
ParallelPoolSize == 5
SequentialPoolSize == 1

\* the restarts the model follows before the time limit is certainly reached
MaxRestarts == 2

\* best_eval = None, kept apart from every score
NoneEval == Sentinel - 1

ProgramTable == <<[eval |-> Sentinel], [eval |-> 0], [eval |-> 1]>>
Programs == DOMAIN ProgramTable

InitialTemps == {150, 200}
FinalTemps == {100}

\* eval_funct.evaluate(p): the scalar score
evaluate(p) == heap[p].eval

\* current_t / (1 + self.alpha * epoch)
reduce_temp(t, e) == (t * 10) \div (10 + AlphaTenths * e)

\* 1000 * ln(k / 4) for k = 1, 2, 3, rounded down; for k = 0 the argument below
\* which exp gives 0.0
LnQuarters == <<-745134, -1387, -694, -288>>

\* is_accept with the comparison turned around
is_accept_Inverted(j_diff, temp, rand) ==
    j_diff * beta < (LnQuarters[rand + 1] * temp) \div (1000 * TempScale)

\* is_accept with random.uniform(0, 1) = rand / 4:
\* rand / 4 < min(1, exp(j_diff * beta / temp))
is_accept(j_diff, temp, rand) ==
    j_diff * beta > (LnQuarters[rand + 1] * temp) \div (1000 * TempScale)

Rands == 0 .. 3

\* the two thresholds exchanged
ppool_max_size_Exchanged == IF is_parallel THEN SequentialPoolSize ELSE ParallelPoolSize

\* lines 217-220
ppool_max_size == IF is_parallel THEN ParallelPoolSize ELSE SequentialPoolSize

\* the fold of start_optimizer over the results of the pool, in submission order
RECURSIVE BestOfResults(_, _, _, _)
BestOfResults(results, i, current_best, current_best_score) ==
    IF i > Len(results) THEN <<current_best, current_best_score>>
    ELSE IF evaluate(results[i]) > current_best_score
         THEN BestOfResults(results, i + 1, results[i], evaluate(results[i]))
         ELSE BestOfResults(results, i + 1, current_best, current_best_score)

\* start_optimizer(ppool), the optimizer having returned the programs `results`
start_optimizer(pool, results) ==
    IF is_parallel
    THEN BestOfResults(results, 1, 0, Sentinel)
    ELSE <<results[1], evaluate(results[1])>>

\* the test that keeps the sentinel out of the plot records, always passing
Recordable_Always(score) == TRUE

\* `if current_eval != -1_000_000`, and the same for best_eval and candidate_eval
Recordable(score) == score # Sentinel

\* a best program that is never replaced by a candidate
is_new_best_Never(score, best_score) == FALSE

\* line 299: `if candidate_eval > best_eval`
is_new_best(score, best_score) == score > best_score

\* d[i][k] = v
DictPut(d, i, k, v) == d \cup {v}

NoStep ==
    [op |-> "none", generated |-> FALSE, j_diff |-> 0, accepted |-> FALSE,
     flushed |-> FALSE, queued |-> 0, best_before |-> NoneEval, temp_before |-> 0,
     epoch_before |-> 0, error |-> "none"]

InitAnneal ==
    /\ option \in {1, 2}
    /\ run_optimizer \in BOOLEAN
    /\ is_parallel \in BOOLEAN
    /\ verbose_opt \in BOOLEAN
    /\ initial_t \in InitialTemps
    /\ final_t \in FinalTemps
    /\ current_t = initial_t
    /\ heap = ProgramTable
    /\ pc = "synthesize"
    /\ best = 0 /\ best_eval = NoneEval
    /\ current = 0 /\ current_eval = NoneEval
    /\ candidate = 0 /\ candidate_eval = NoneEval
    /\ epoch = 0 /\ iterations = 0 /\ ppool = <<>>
    /\ scores_dict = {} /\ best_pscore_dict = {}
    /\ call = NoStep
    /\ stack = <<>> /\ grammar = TreeGrammar /\ max_depth = 4 /\ max_size = 50
    /\ built = <<>> /\ plist = <<>> /\ psize = 0 /\ grown = {} /\ emitted = <<>>

OtherThanAnneal ==
    UNCHANGED <<built, plist, psize, grown, emitted, grammar, max_depth, max_size, heap,
                stack, option, run_optimizer, is_parallel, verbose_opt, initial_t, final_t>>

\* lines 195-229: the set-up; with option 2 the first program is generated here
Setup ==
    /\ pc = "synthesize"
    /\ IF option = 2
       THEN \E p \in Programs :
               /\ best' = p /\ best_eval' = evaluate(p)
               /\ call' = [NoStep EXCEPT !.op = "setup", !.generated = TRUE]
       ELSE /\ best' = 0 /\ best_eval' = NoneEval
            /\ call' = [NoStep EXCEPT !.op = "setup"]
    /\ pc' = "outer"
    /\ UNCHANGED <<current, current_eval, candidate, candidate_eval, current_t, epoch,
                   iterations, ppool, scores_dict, best_pscore_dict>>
    /\ OtherThanAnneal

\* lines 237-269: the time limit is not reached; the initial program of the restart
Restart ==
    /\ pc = "outer"
    /\ iterations < MaxRestarts
    /\ current_t' = initial_t
    /\ IF option = 1
       THEN \E p \in Programs :
               /\ current' = p /\ current_eval' = evaluate(p)
               /\ IF best = 0 \/ evaluate(p) > best_eval
                  THEN best' = p /\ best_eval' = evaluate(p)
                  ELSE UNCHANGED <<best, best_eval>>
       ELSE /\ current' = best /\ current_eval' = best_eval
            /\ UNCHANGED <<best, best_eval>>
    /\ scores_dict' =
          IF Recordable(current_eval')
          THEN DictPut(scores_dict, iterations, 0, current_eval') ELSE scores_dict
    /\ best_pscore_dict' =
          IF Recordable(best_eval')
          THEN DictPut(best_pscore_dict, iterations, 0, best_eval') ELSE best_pscore_dict
    /\ epoch' = 0
    /\ call' = [NoStep EXCEPT !.op = "restart", !.generated = (option = 1),
                              !.best_before = best_eval, !.queued = Len(ppool)]
    /\ pc' = "cooling"
    /\ UNCHANGED <<candidate, candidate_eval, iterations, ppool>>
    /\ OtherThanAnneal


\* lines 270-318: one turn of the cooling loop
Epoch ==
    /\ pc = "cooling"
    /\ current_t > final_t
    /\ IF current = 0
       THEN \* mutate(cp.deepcopy(None)): None has no get_size
            /\ pc' = "crashed"
            /\ call' = [NoStep EXCEPT !.op = "epoch", !.error = "AttributeError",
                                      !.temp_before = current_t, !.epoch_before = epoch,
                                      !.best_before = best_eval, !.queued = Len(ppool)]
            /\ UNCHANGED <<best, best_eval, current, current_eval, candidate,
                           candidate_eval, current_t, epoch, iterations, ppool,
                           scores_dict, best_pscore_dict>>
       ELSE \E c \in Programs :
            LET c_eval == evaluate(c)
                scores1 == IF Recordable(c_eval)
                           THEN DictPut(scores_dict, iterations, epoch + 1, c_eval)
                           ELSE scores_dict
                pool1 == IF run_optimizer THEN Append(ppool, <<c, c_eval>>) ELSE ppool
                flush == run_optimizer /\ Len(pool1) >= ppool_max_size
                \* what start_optimizer can return, over all the optimizer can
                outcomes == IF flush
                            THEN {start_optimizer(pool1, results) :
                                     results \in [1 .. Len(pool1) -> Programs]}
                            ELSE {<<c, c_eval>>}
            IN \E optimized \in outcomes, rand \in Rands :
               LET cand == IF flush THEN optimized[1] ELSE c
                   cand_eval == IF flush THEN optimized[2] ELSE c_eval
                   best_updated == is_new_best(cand_eval, best_eval)
                   \* candidate.get_size() for the log, on None
                   log_fails == (best_updated \/ verbose_opt) /\ cand = 0
                   j_diff == cand_eval - current_eval
                   accept == j_diff > 0 \/ is_accept(j_diff, current_t, rand)
                   step == [NoStep EXCEPT
                              !.op = "epoch", !.j_diff = j_diff,
                              !.flushed = flush, !.queued = Len(ppool),
                              !.best_before = best_eval, !.temp_before = current_t,
                              !.epoch_before = epoch]
               IN /\ candidate' = cand
                  /\ candidate_eval' = cand_eval
                  /\ scores_dict' = scores1
                  /\ ppool' = IF flush THEN <<>> ELSE pool1
                  /\ IF best_updated
                     THEN /\ best' = cand /\ best_eval' = cand_eval
                          /\ best_pscore_dict' =
                                DictPut(best_pscore_dict, iterations, epoch + 1, cand_eval)
                     ELSE UNCHANGED <<best, best_eval, best_pscore_dict>>
                  /\ IF log_fails
                     THEN /\ pc' = "crashed"
                          /\ call' = [step EXCEPT !.error = "AttributeError"]
                          /\ UNCHANGED <<current, current_eval, current_t, epoch>>
                     ELSE /\ pc' = "cooling"
                          /\ call' = [step EXCEPT !.accepted = accept]
                          /\ IF accept
                             THEN current' = cand /\ current_eval' = cand_eval
                             ELSE UNCHANGED <<current, current_eval>>
                          /\ current_t' = reduce_temp(current_t, epoch)
                          /\ epoch' = epoch + 1
                  /\ UNCHANGED iterations
    /\ OtherThanAnneal

\* lines 270, 320: the temperature is at or below final_t, the restart is over
EndCooling ==
    /\ pc = "cooling"
    /\ current_t <= final_t
    /\ iterations' = iterations + 1
    /\ pc' = "outer"
    /\ call' = [NoStep EXCEPT !.op = "end_cooling", !.temp_before = current_t,
                              !.epoch_before = epoch, !.best_before = best_eval,
                              !.queued = Len(ppool)]
    /\ UNCHANGED <<best, best_eval, current, current_eval, candidate, candidate_eval,
                   current_t, epoch, ppool, scores_dict, best_pscore_dict>>
    /\ OtherThanAnneal

\* lines 237, 323-342: the time limit is reached; the best program is logged and returned
Finish ==
    /\ pc = "outer"
    /\ IF best = 0
       THEN /\ pc' = "crashed"
            /\ call' = [NoStep EXCEPT !.op = "finish", !.error = "AttributeError",
                                      !.best_before = best_eval, !.queued = Len(ppool)]
       ELSE /\ pc' = "returned"
            /\ call' = [NoStep EXCEPT !.op = "finish", !.best_before = best_eval,
                                      !.queued = Len(ppool)]
    /\ UNCHANGED <<best, best_eval, current, current_eval, candidate, candidate_eval,
                   current_t, epoch, iterations, ppool, scores_dict, best_pscore_dict>>
    /\ OtherThanAnneal

NextAnneal == Setup \/ Restart \/ Epoch \/ EndCooling \/ Finish

\* the driver is sequential: it takes its next step as long as it has one
SpecAnneal == InitAnneal /\ [][NextAnneal]_vars /\ WF_vars(NextAnneal)


(***************************************************************************)
(* C12 as stated.  A program whose score is the sentinel is never held as  *)
(* best, and the sentinel is never written into scores_dict or             *)
(* best_pscore_dict.                                                       *)
(***************************************************************************)
C12_SentinelNeverBest ==
    /\ best # 0 => best_eval # Sentinel
    /\ Sentinel \notin scores_dict \cup best_pscore_dict

(***************************************************************************)
(* C12 as amended.  The sentinel is never written into scores_dict or      *)
(* best_pscore_dict, and no mutant scoring the sentinel replaces best; but *)
(* the first program generated is held as best whatever its score, so best *)
(* holds a sentinel-scored program until a program scoring above the       *)
(* sentinel is evaluated (no best score has been recorded until then).     *)
(* The sentinel is the score used in the acceptance comparison.            *)
(***************************************************************************)
C12_SentinelNeverRecorded ==
    /\ Sentinel \notin scores_dict \cup best_pscore_dict
    /\ best_eval = Sentinel => best_pscore_dict = {}
    /\ (call.op = "epoch" /\ best_eval # call.best_before) => best_eval # Sentinel
    /\ (call.op = "epoch" /\ call.error = "none" /\ candidate_eval = Sentinel)
          => call.j_diff <= 0

\* a sentinel-scored program is best, and a sentinel-scored mutant went through
\* the acceptance comparison and was accepted, nothing being recorded
C12_Witness ==
    /\ pc = "cooling" /\ call.op = "epoch"
    /\ best # 0 /\ best_eval = Sentinel
    /\ candidate # 0 /\ candidate_eval = Sentinel /\ call.accepted
    /\ scores_dict = {} /\ best_pscore_dict = {}


(***************************************************************************)
(* C13.  In the cooling loop a mutant whose score is at least the current  *)
(* program's (j_diff >= 0) becomes the new current program, at every       *)
(* temperature and for every random draw; a mutant is rejected only when   *)
(* j_diff < 0.                                                             *)
(***************************************************************************)
C13_UphillAlwaysAccepted ==
    (call.op = "epoch" /\ candidate # 0) =>
        /\ call.j_diff >= 0 =>
              (call.accepted /\ current = candidate /\ current_eval = candidate_eval)
        /\ ~call.accepted => call.j_diff < 0

\* a mutant scoring exactly the current score was accepted, at the largest draw
\* and with the temperature already lowered
C13_Witness ==
    /\ call.op = "epoch" /\ candidate # 0
    /\ call.j_diff = 0 /\ call.accepted
    /\ call.epoch_before >= 1
    /\ current = candidate /\ candidate_eval # Sentinel


(***************************************************************************)
(* Claim on Times.grow (SpecBank)                                          *)
(***************************************************************************)
\* the operand pairs Times.grow enumerated at the level just grown (the levels
\* they come from, below psize - 1, are not touched by the insertion)
TimesPairs == ArithmeticPairs(plist, emitted.psize)

\* the renderings of the programs on the levels the operands come from
OperandRenderings ==
    LET ps == Flatten([c \in 1 .. MaxCost + 1 |->
                  IF c \in DOMAIN plist /\ c < emitted.psize THEN ProgramsOf(BankGet(plist, c), valid_nodes_arithmetic)
                  ELSE <<>>])
    IN [i \in DOMAIN ps |-> toString(ps[i])]

NoDuplicateRenderings ==
    \A i, j \in DOMAIN OperandRenderings :
        OperandRenderings[i] = OperandRenderings[j] => i = j

TimesRendering(l, r) == toString(Times_init(l, r).node)

TimesEmitted(l, r) ==
    \E i \in DOMAIN emitted.out : toString(emitted.out[i].p) = TimesRendering(l, r)

(***************************************************************************)
(* C14.  Within one call of Times.grow over a bank without duplicate       *)
(* renderings: for operands a and b of different renderings exactly the    *)
(* first enumerated of (a * b) and (b * a) is emitted, (a * a) is emitted, *)
(* and no two emitted nodes are operand-swaps of each other.               *)
(***************************************************************************)
C14_TimesSwapsEmittedOnce ==
    (emitted.op = "Times" /\ NoDuplicateRenderings) =>
        /\ \A k \in DOMAIN TimesPairs :
              LET l == TimesPairs[k].l
                  r == TimesPairs[k].r
                  swap_first == \E m \in 1 .. (k - 1) :
                                    /\ toString(TimesPairs[m].l) = toString(r)
                                    /\ toString(TimesPairs[m].r) = toString(l)
              IN IF toString(l) = toString(r) THEN TimesEmitted(l, r)
                 ELSE TimesEmitted(l, r) <=> ~swap_first
        /\ \A i, j \in DOMAIN emitted.out :
              (i # j) =>
                  toString(emitted.out[i].p)
                     # TimesRendering(emitted.out[j].p.args[2], emitted.out[j].p.args[1])

\* a call that enumerated both orders of a pair and a square: one order and the
\* square are emitted, the other order is not
C14_Witness ==
    /\ emitted.op = "Times" /\ NoDuplicateRenderings
    /\ \E k, m \in DOMAIN TimesPairs :
          /\ k < m
          /\ toString(TimesPairs[k].l) # toString(TimesPairs[k].r)
          /\ toString(TimesPairs[m].l) = toString(TimesPairs[k].r)
          /\ toString(TimesPairs[m].r) = toString(TimesPairs[k].l)
          /\ TimesEmitted(TimesPairs[k].l, TimesPairs[k].r)
          /\ ~TimesEmitted(TimesPairs[m].l, TimesPairs[m].r)
    /\ \E k \in DOMAIN TimesPairs :
          /\ toString(TimesPairs[k].l) = toString(TimesPairs[k].r)
          /\ TimesEmitted(TimesPairs[k].l, TimesPairs[k].r)


(***************************************************************************)
(* C15 as stated (the docstring of synthesize).  Option 1 does not         *)
(* generate a new random program at a restart and continues from the best  *)
(* program; option 2 generates a new random program at every restart.      *)
(***************************************************************************)
C15_OptionsAsDocumented ==
    call.op = "restart" =>
        /\ option = 1 => (~call.generated /\ current = best)
        /\ option = 2 => call.generated


\* the threshold the claim names: 5 in parallel mode, 1 in sequential mode
QueueThreshold == IF is_parallel THEN 5 ELSE 1

(***************************************************************************)
(* C16.  With the optimizer enabled the candidate queue is flushed exactly *)
(* when its length reaches the threshold (5 parallel, 1 sequential) and is *)
(* empty right after, so after every turn of the inner loop its length is  *)
(* below the threshold; a restart leaves the queued candidates in place,   *)
(* to be flushed in a later restart.  Without the optimizer nothing is     *)
(* queued.                                                                 *)
(***************************************************************************)
C16_QueueFlushedAtThreshold ==
    /\ [](/\ Len(ppool) < QueueThreshold
          /\ ~run_optimizer => (ppool = <<>> /\ ~call.flushed)
          /\ call.flushed =>
                (call.op = "epoch" /\ call.queued + 1 = QueueThreshold /\ ppool = <<>>)
          /\ (call.op = "epoch" /\ call.queued + 1 < QueueThreshold) => ~call.flushed)
    /\ [][call'.op \in {"restart", "end_cooling", "finish"} => ppool' = ppool]_vars

\* a flush in the second restart of a batch that holds candidates queued in the
\* first restart
C16_Witness ==
    /\ call.op = "epoch" /\ call.flushed /\ is_parallel
    /\ iterations = 1 /\ call.queued = 4 /\ call.epoch_before < 4
    /\ ppool = <<>>


(***************************************************************************)
(* C17.  Once the first restart has set up its initial program, in both    *)
(* modes and with or without the optimizer, best_eval never decreases and  *)
(* best_eval >= current_eval.                                              *)
(***************************************************************************)
C17_BestDominatesCurrent ==
    /\ [](current_eval # NoneEval => (best_eval # NoneEval /\ best_eval >= current_eval))
    /\ [][best_eval # NoneEval => best_eval' >= best_eval]_vars

\* in a second restart: the best score was raised by a candidate that was then
\* accepted, and later a worse candidate was accepted in its place
C17_Witness ==
    /\ call.op = "epoch" /\ call.accepted /\ call.j_diff < 0
    /\ iterations = 1
    /\ best_eval > current_eval /\ current_eval # Sentinel
    /\ best_eval \in best_pscore_dict


(***************************************************************************)
(* C18 as stated.  After every batch flush the candidate is a program      *)
(* (never None) paired with the score the optimizer returned for it,       *)
(* whatever scores the optimizer returns for the batch, and current is     *)
(* never None while a restart is cooling.                                  *)
(***************************************************************************)
C18_FlushYieldsProgram ==
    /\ call.flushed => (candidate # 0 /\ candidate_eval = evaluate(candidate))
    /\ pc = "cooling" => current # 0
    /\ call.error = "AttributeError" => call.op # "epoch"


(***************************************************************************)
(* C19 as stated.  Whenever synthesize leaves its outer loop, best is a    *)
(* program that was evaluated and best_eval is its score, in both modes,   *)
(* also when no restart was performed.                                     *)
(***************************************************************************)
C19_BestIsEvaluatedAtExit ==
    call.op = "finish" =>
        /\ best # 0 /\ best_eval = evaluate(best)
        /\ pc = "returned"

(***************************************************************************)
(* C20 as stated.  Every inner cooling loop terminates: from one epoch to  *)
(* the next the temperature never increases and is unchanged only by the   *)
(* step at epoch 0, and a loop that has started reaches a temperature      *)
(* <= final_t, after which a restart or the exit of the outer loop         *)
(* follows.                                                                *)
(***************************************************************************)
C20_CoolingReachesFloor ==
    /\ [][(pc = "cooling" /\ call'.op = "epoch" /\ call'.error = "none") =>
             (current_t' <= current_t /\ (current_t' = current_t => epoch = 0))]_vars
    /\ (pc = "cooling") ~> (pc = "cooling" /\ current_t <= final_t)
    /\ (pc = "cooling" /\ current_t <= final_t) ~> (pc = "outer")

====
